---- MODULE Spec2Model ----
(***************************************************************************)
(* LithosGuard Pro: the monitoring session of app.py (alarm latch, command *)
(* log, rolling telemetry buffer, streaming replay loop, forensic          *)
(* evaluation), the physics of src/physics_engine.py and the data of       *)
(* src/data_simulator.py.                                                  *)
(*                                                                         *)
(* Numbers.  Python floats are modelled in fixed point:                    *)
(*   pressures and stresses   tenths of a kPa      (0.1 kPa  = 1)          *)
(*   displacements            tenths of a mm       (0.1 mm   = 1)          *)
(*   factor of safety         thousandths, floored (1.05     = 1050)       *)
(*   tan(friction angle)      ten-thousandths      (tan 35 deg = 7002)     *)
(*   Time_Hrs of row i        240 * i, in units of 1/(10*(rows-1)) hour,   *)
(*                            so that linspace(0, 24, rows) is exact       *)
(*   timeline slider          tenths of an hour                            *)
(* floor(1000 * x) < 1050 iff x < 1.05, so flooring the factor of safety   *)
(* does not change the outcome of the comparison with the threshold.       *)
(*                                                                         *)
(* One Streamlit script run is: the sidebar (widgets and button handlers,  *)
(* app.py 292-412), then the main part (app.py 459-847).  A user action    *)
(* starts a new run and so interrupts the run in progress; the run can     *)
(* only be interrupted where it emits an element, never between the        *)
(* assignments of one handler or of one tick.                              *)
(***************************************************************************)
EXTENDS Integers, Sequences, FiniteSets, TLC

(* ---- bounds of the model ---------------------------------------------- *)

\* row counts given to generate_gsi_dataset when called on its own: 1..MaxRows
MaxRows == 6

\* lengths of the series given to inverse_velocity and calculate_ttf when
\* called on their own: 0..MaxSamples (beyond the 10 samples they use)
MaxSamples == 11

\* rows of a generated dataset (app.py 463: rows=1000), scaled down
rows == 11

\* capacity of the rolling telemetry buffer (app.py 503: max_buffer = 200),
\* scaled down with the dataset
max_buffer == 2

\* largest playback speed of the slider (app.py 484: 1..20), scaled down
MaxSpeed == 2

\* a session is followed for this many user actions (widget changes and
\* button clicks); every one of them starts a script run
MaxClicks == 4

VARIABLES
    \* widget state
    mode, source_option, scenario, playback_speed, timeline_hour,
    \* st.session_state
    inject_failure, data_source, test_siren, alarm_triggered, command_log,
    alarm_already_logged, telemetry_buffer, api_connected,
    \* the script run in progress: pc, and the loop variable of the replay
    pc, i,
    \* history of the last step: the action, the index of the row it
    \* evaluated (-1: none), the outcome, and the number of records it
    \* appended to the command log
    last_action, is_critical, eval_index, appended,
    \* history of the replay in progress: the indices processed, whether the
    \* hard stop ended it, whether it started with alarm_already_logged
    \* false, the length of the command log when it started, and the index
    \* of the tick that appended a batch (-1: none)
    visited, paused, replay_armed, replay_log_len, batch_index,
    \* history since the start of the session or the last Reset: batches the
    \* streaming loop appended (counted up to 2), and whether INJECT FAILURE
    \* or the forensic auto-clear re-armed the latch
    stream_batches, rearmed,
    \* history of a forensic-only session (f_valid: since the start or the last
    \* Reset only forensic evaluations changed the session): the number of
    \* maximal runs of critical evaluations, and the last evaluation's outcome
    f_valid, f_runs, f_prev,
    \* streaming ticks since the buffer was last emptied, counted up to
    \* max_buffer + 1
    ticks,
    \* user actions so far
    clicks,
    \* the last call of a function of src/ made on its own (fn, args, result)
    call,
    \* the LithosML object of app.py 263-269
    ml_engine

widgets == <<mode, source_option, scenario, playback_speed, timeline_hour>>

session == <<inject_failure, data_source, test_siren, alarm_triggered,
             command_log, alarm_already_logged, telemetry_buffer, api_connected>>

history == <<last_action, is_critical, eval_index, appended, visited, paused, replay_armed,
             replay_log_len, batch_index, stream_batches, rearmed,
             f_valid, f_runs, f_prev, ticks, clicks>>

engines == <<call, ml_engine>>

vars == <<widgets, session, pc, i, history, engines>>

Max(a, b) == IF a >= b THEN a ELSE b

Min(a, b) == IF a <= b THEN a ELSE b

(* ---- src/physics_engine.py -------------------------------------------- *)

\* np.tan(np.radians(friction_angle)), in ten-thousandths
tan_phi(friction_angle) ==
    CASE friction_angle = 0  -> 0
      [] friction_angle = 35 -> 7002
      [] friction_angle = 45 -> 10000

\* mutant of effective_normal_stress: the floor 0.1 is dropped
Mutant_effective_normal_stress(normal_stress, pore_pressure) ==
    normal_stress - pore_pressure

\* effective_normal_stress = max(normal_stress - pore_pressure, 0.1)
\* (physics_engine.py 35), in tenths of kPa
effective_normal_stress(normal_stress, pore_pressure) ==
    Max(normal_stress - pore_pressure, 1)

\* mutant of calculate_fos: the total normal stress in place of the effective
Mutant_calculate_fos(cohesion, friction_angle, normal_stress, pore_pressure, shear_stress) ==
    LET shear_strength == 10000 * cohesion
                          + Max(normal_stress, 1) * tan_phi(friction_angle)
    IN  shear_strength \div (10 * Max(shear_stress, 1))

\* GeotechPhysics.calculate_fos; the result in thousandths:
\*   1000 * (c + e * t / 10000) / tau  =  (10000 * c + e * t) / (10 * tau)
calculate_fos(cohesion, friction_angle, normal_stress, pore_pressure, shear_stress) ==
    LET shear_strength == 10000 * cohesion
                          + effective_normal_stress(normal_stress, pore_pressure)
                            * tan_phi(friction_angle)
    IN  shear_strength \div (10 * Max(shear_stress, 1))

\* GeotechPhysics.calculate_shear_stress with its defaults base_stress=80.0,
\* stress_increase_rate=2.5
calculate_shear_stress(displacement) == 800 + (displacement * 25) \div 10

Abs(x) == IF x >= 0 THEN x ELSE -x

\* the Python slice s[-n:] for n > 0
LastN(s, n) == IF Len(s) <= n THEN s ELSE SubSeq(s, Len(s) - n + 1, Len(s))

\* the argument time_series=None, and a time series that is given
None == [given |-> FALSE]

Given(time_series) == [given |-> TRUE, values |-> time_series]

\* mutant of inverse_velocity: the mean velocity over the last 10 samples
Mutant_inverse_velocity(displacement_series, time_series) ==
    IF Len(displacement_series) < 5
    THEN 999000
    ELSE LET recent_displacement == LastN(displacement_series, 10)
             m == Len(recent_displacement)
             dy == recent_displacement[m] - recent_displacement[1]
             dx == IF time_series.given
                   THEN LET time_array == LastN(time_series.values, 10)
                        IN  time_array[m] - time_array[1]
                   ELSE 10 * (m - 1)
         IN  IF 10000 * Abs(dy) < Abs(dx)
             THEN 99000
             ELSE (1000 * Abs(dx)) \div Abs(dy)

\* GeotechPhysics.inverse_velocity, in thousandths.  Displacements are in
\* tenths of a mm and times in tenths of an hour, so the velocity in mm/h is
\* dy / dx; with time_series=None the spacing is one sample, dx = 10.  The
\* last value of np.gradient is the one-sided difference of the last two
\* samples.  Times are taken to be strictly increasing and as many as the
\* displacements.
inverse_velocity(displacement_series, time_series) ==
    IF Len(displacement_series) < 5
    THEN 999000
    ELSE LET recent_displacement == LastN(displacement_series, 10)
             m == Len(recent_displacement)
             dy == recent_displacement[m] - recent_displacement[m - 1]
             dx == IF time_series.given
                   THEN LET time_array == LastN(time_series.values, 10)
                        IN  time_array[m] - time_array[m - 1]
                   ELSE 10
         IN  IF 10000 * Abs(dy) < Abs(dx)
             THEN 99000
             ELSE (1000 * Abs(dx)) \div Abs(dy)

\* mutant of calculate_ttf: a sentinel of inverse_velocity is passed on as it is
Mutant_calculate_ttf(displacement_series, time_series, scaling_factor) ==
    LET inv_v == inverse_velocity(displacement_series, time_series)
    IN  IF inv_v = 999000 THEN inv_v ELSE (inv_v * scaling_factor) \div 10

\* GeotechPhysics.calculate_ttf, in thousandths of an hour; scaling_factor
\* in tenths (the default 0.5 is 5)
calculate_ttf(displacement_series, time_series, scaling_factor) ==
    LET inv_v == inverse_velocity(displacement_series, time_series)
    IN  (inv_v * scaling_factor) \div 10

(* ---- src/ml_engine.py --------------------------------------------------- *)

\* what _load_model meets: whether `import joblib` raises, whether a file
\* exists at model_path, and whether joblib.load raises on it
Artifacts == [import_raises : BOOLEAN, exists : BOOLEAN, load_raises : BOOLEAN]

\* no file at model_path
MissingArtifact == [import_raises |-> FALSE, exists |-> FALSE, load_raises |-> FALSE]

\* mutant of _load_model: no try/except around the loading
Mutant__load_model(self, artifact) ==
    IF artifact.import_raises
    THEN [raised |-> TRUE, self |-> self]
    ELSE IF artifact.exists
    THEN IF artifact.load_raises
         THEN [raised |-> TRUE, self |-> self]
         ELSE [raised |-> FALSE,
               self |-> [self EXCEPT !.model = "classifier", !.model_loaded = TRUE]]
    ELSE [raised |-> FALSE, self |-> self]

\* LithosML._load_model: the object after the call, and whether it raised.
\* The body runs in a try whose `except Exception` only prints.
_load_model(self, artifact) ==
    LET body ==
            IF artifact.import_raises
            THEN [raised |-> TRUE, self |-> self]
            ELSE IF artifact.exists
            THEN IF artifact.load_raises
                 THEN [raised |-> TRUE, self |-> self]
                 ELSE [raised |-> FALSE,
                       self |-> [self EXCEPT !.model = "classifier", !.model_loaded = TRUE]]
            ELSE [raised |-> FALSE, self |-> self]
    IN  [raised |-> FALSE, self |-> body.self]

\* LithosML.__init__: the constructed object, and whether the constructor raised
LithosML(artifact) ==
    _load_model([model |-> "None", model_loaded |-> FALSE], artifact)

\* what the classifier does in one invocation: the step of predict_risk
\* that raises ("none": no step; "frame": building the input frame), the
\* value of predict(X)[0] and the value of predict_proba(X)[0] in percent
ClassifierOutcomes ==
    [raises : {"none", "frame", "predict", "predict_proba"},
     prediction : {0, 1},
     probability : {<<100>>, <<30, 70>>}]

\* mutant of predict_risk: the invocation is not guarded by try/except
Mutant_predict_risk(self, pressure, displacement, outcome) ==
    IF ~self.model_loaded
    THEN [raised |-> FALSE, value |-> <<"Model Not Loaded", 0>>, self |-> self]
    ELSE IF outcome.raises # "none"
    THEN [raised |-> TRUE, value |-> <<"None", 0>>, self |-> self]
    ELSE [raised |-> FALSE,
          value |-> <<IF outcome.prediction = 1 THEN "CRITICAL FAILURE" ELSE "Stable",
                      IF Len(outcome.probability) > 1 THEN outcome.probability[2] ELSE 50>>,
          self |-> self]

\* LithosML.predict_risk: the returned (risk_label, probability in
\* percent), whether the call raised, and the object after the call
predict_risk(self, pressure, displacement, outcome) ==
    IF ~self.model_loaded
    THEN [raised |-> FALSE, value |-> <<"Model Not Loaded", 0>>, self |-> self]
    ELSE IF outcome.raises # "none"
    THEN [raised |-> FALSE, value |-> <<"Error", 0>>, self |-> self]
    ELSE [raised |-> FALSE,
          value |-> <<IF outcome.prediction = 1 THEN "CRITICAL FAILURE" ELSE "Stable",
                      IF Len(outcome.probability) > 1 THEN outcome.probability[2] ELSE 50>>,
          self |-> self]

\* no call of a function on its own yet
NoCall == [fn |-> "none"]

(* ---- src/data_simulator.py -------------------------------------------- *)

Scenarios == {"monsoon", "stable", "seismic"}

\* np.linspace divides the interval by num - 1; with num = 1 the only
\* sample is the start
linspace_div(num) == Max(num - 1, 1)

\* the unit of Time_Hrs in a dataset of n rows: 1/TimeUnitsPerHour(n) hour
TimeUnitsPerHour(n) == 10 * linspace_div(n)

\* mutant of time_hrs: linspace without its endpoint (step 24 / n)
Mutant_time_hrs(n, k) == (240 * k * linspace_div(n)) \div n

\* np.linspace(0, 24, n)[k], in units of 1/(10*(n-1)) hour
time_hrs(n, k) == 240 * k

\* the whole hour row k of n falls in
HourOf(n, k) == (24 * k) \div linspace_div(n)

\* _generate_monsoon_scenario: pressure = 20 + 65 / (1 + exp(-0.5 (t - 18))),
\* sampled at the whole hours 0..24 and rounded to 0.2 kPa
MonsoonPressure ==
    <<200, 200, 200, 200, 200, 200, 202, 202, 204, 206, 212, 218, 230, 248,
      276, 318, 374, 444, 524, 606, 674, 730, 772, 800, 818>>

\* _generate_monsoon_scenario: displacement = 0.5 * exp(0.3 * pressure / 10),
\* at the whole hours 0..24 and rounded to 0.2 mm
MonsoonDisplacement ==
    <<10, 10, 10, 10, 10, 10, 10, 10, 10, 10, 10, 10, 10, 10,
      12, 14, 16, 20, 24, 30, 38, 44, 50, 56, 58>>

\* _generate_seismic_scenario: displacement = 1 + 8 * exp(-(t - 12)^2 / 2),
\* at the whole hours 0..24 and rounded to 0.2 mm
SeismicDisplacement ==
    <<10, 10, 10, 10, 10, 10, 10, 10, 10, 10, 20, 58, 90, 58,
      20, 10, 10, 10, 10, 10, 10, 10, 10, 10, 10>>

_generate_monsoon_scenario(n, k) ==
    [pressure |-> MonsoonPressure[HourOf(n, k) + 1],
     displacement |-> MonsoonDisplacement[HourOf(n, k) + 1]]

\* the Gaussian noise of the pressure is taken at its mean
_generate_seismic_scenario(n, k) ==
    [pressure |-> 300,
     displacement |-> SeismicDisplacement[HourOf(n, k) + 1]]

\* np.linspace(0.5, 1.5, n)[k] rounded down to 0.2 mm; noise at its mean
_generate_stable_scenario(n, k) ==
    [pressure |-> 250,
     displacement |-> 2 * ((5 * linspace_div(n) + 10 * k) \div (2 * linspace_div(n)))]

\* generate_gsi_dataset(rows=n, scenario): rows 0..n-1, the columns app.py reads
generate_gsi_dataset(n, sc) ==
    [k \in 0..(n - 1) |->
        LET data == IF sc = "monsoon" THEN _generate_monsoon_scenario(n, k)
                    ELSE IF sc = "seismic" THEN _generate_seismic_scenario(n, k)
                    ELSE _generate_stable_scenario(n, k)
        IN  [Time_Hrs |-> time_hrs(n, k),
             Pore_Water_Pressure_kPa |-> data.pressure,
             Displacement_mm |-> data.displacement]]

(* ---- app.py: the dataset ------------------------------------------------ *)

\* the cache of st.cache_data: one generated frame per scenario
DatasetCache == [sc \in Scenarios |-> generate_gsi_dataset(rows, sc)]

\* get_dataset (st.cache_data returns a fresh copy of the cached frame)
get_dataset(scenario_type) == DatasetCache[scenario_type]

\* spike_start = int(len(full_data) * 0.8)
spike_start(data) == (Cardinality(DOMAIN data) * 8) \div 10

\* mutant of InjectedData: the spike covers every row
Mutant_InjectedData(data) ==
    [k \in DOMAIN data |->
        [data[k] EXCEPT !.Pore_Water_Pressure_kPa = (@ * 15) \div 10]]

\* full_data.loc[spike_start:, 'Pore_Water_Pressure_kPa'] *= 1.5
InjectedData(data) ==
    [k \in DOMAIN data |->
        IF k >= spike_start(data)
        THEN [data[k] EXCEPT !.Pore_Water_Pressure_kPa = (@ * 15) \div 10]
        ELSE data[k]]

\* full_data of a script run (app.py 465-469), for every scenario and
\* value of inject_failure
FullDataTable ==
    [sc \in Scenarios |->
        [inject \in BOOLEAN |->
            IF inject THEN InjectedData(get_dataset(sc)) ELSE get_dataset(sc)]]

FullData(sc, inject) == FullDataTable[sc][inject]

\* the index the replay loop stops after once critical (app.py 691: i > 800,
\* with the 1000 rows of get_dataset), scaled with the dataset
hard_stop_index == (rows * 800) \div 1000

(* ---- app.py: evaluation of one point ---------------------------------- *)

\* mutant of StreamFos: normal stress and pore pressure change places
Mutant_StreamFos(point) ==
    calculate_fos(500, 35, point.Pore_Water_Pressure_kPa, 1200,
                  calculate_shear_stress(point.Displacement_mm))

\* fos of a row, LIVE STREAM (app.py 511-512)
StreamFos(point) ==
    calculate_fos(500, 35, 1200, point.Pore_Water_Pressure_kPa,
                  calculate_shear_stress(point.Displacement_mm))

\* mutant of StreamIsCritical: the threshold is 1.0
Mutant_StreamIsCritical(fos) == fos < 1000

\* is_critical = fos < 1.05 (app.py 520)
StreamIsCritical(fos) == fos < 1050

\* fos of a row, MANUAL FORENSICS (app.py 707-708)
ForensicFos(point) ==
    calculate_fos(500, 35, 1200, point.Pore_Water_Pressure_kPa,
                  calculate_shear_stress(point.Displacement_mm))

\* is_critical = fos < 1.05 (app.py 712)
ForensicIsCritical(fos) == fos < 1050

(* ---- app.py: command log and telemetry buffer -------------------------- *)

\* mutant of StreamBatch: the clock is read again for the last record
Mutant_StreamBatch(current_time) ==
    << [ts |-> current_time, rec |-> "MQTT SIREN_ON"],
       [ts |-> current_time, rec |-> "API POST /v1/trigger/alarm"],
       [ts |-> current_time, rec |-> "SMS broadcast"],
       [ts |-> current_time, rec |-> "RELAY truck cutoff"],
       [ts |-> current_time + 1, rec |-> "RELAY emergency lighting"] >>

\* the five records of app.py 527-533, all stamped current_time
StreamBatch(current_time) ==
    << [ts |-> current_time, rec |-> "MQTT SIREN_ON"],
       [ts |-> current_time, rec |-> "API POST /v1/trigger/alarm"],
       [ts |-> current_time, rec |-> "SMS broadcast"],
       [ts |-> current_time, rec |-> "RELAY truck cutoff"],
       [ts |-> current_time, rec |-> "RELAY emergency lighting"] >>

\* mutant of ForensicBatch: the batch lacks the siren-on record
Mutant_ForensicBatch(ct) ==
    << [ts |-> ct, rec |-> "API POST /v1/trigger/alarm"],
       [ts |-> ct, rec |-> "SMS broadcast"],
       [ts |-> ct, rec |-> "RELAY truck cutoff"] >>

\* the four records of app.py 718-723, all stamped ct
ForensicBatch(ct) ==
    << [ts |-> ct, rec |-> "MQTT SIREN_ON"],
       [ts |-> ct, rec |-> "API POST /v1/trigger/alarm"],
       [ts |-> ct, rec |-> "SMS broadcast"],
       [ts |-> ct, rec |-> "RELAY truck cutoff"] >>

\* the record of app.py 325
TestRecord(current_time) ==
    [ts |-> current_time, rec |-> "TEST siren"]

\* mutant of extend: the records replace the log
Mutant_extend(log, records) == records

\* st.session_state.command_log.extend([...]) (app.py 527, 718)
extend(log, records) == log \o records

EmptyBuffer == [time |-> <<>>, pressure |-> <<>>, displacement |-> <<>>, fos |-> <<>>]

\* mutant of BufferAppendPoint: only the time series is trimmed
Mutant_BufferAppendPoint(buffer, point) ==
    LET b == [buffer EXCEPT
                !.time = Append(@, point.Time_Hrs),
                !.pressure = Append(@, point.Pore_Water_Pressure_kPa),
                !.displacement = Append(@, point.Displacement_mm)]
    IN  IF Len(b.time) > max_buffer
        THEN [b EXCEPT !.time = LastN(@, max_buffer)]
        ELSE b

\* app.py 498-506: append time, pressure, displacement; trim every key
BufferAppendPoint(buffer, point) ==
    LET b == [buffer EXCEPT
                !.time = Append(@, point.Time_Hrs),
                !.pressure = Append(@, point.Pore_Water_Pressure_kPa),
                !.displacement = Append(@, point.Displacement_mm)]
    IN  IF Len(b.time) > max_buffer
        THEN [key \in DOMAIN b |-> LastN(b[key], max_buffer)]
        ELSE b

\* mutant of BufferAppendFos: the fos series is not trimmed
Mutant_BufferAppendFos(buffer, fos) == [buffer EXCEPT !.fos = Append(@, fos)]

\* app.py 516-518: append fos; trim the fos series
BufferAppendFos(buffer, fos) ==
    LET b == [buffer EXCEPT !.fos = Append(@, fos)]
    IN  IF Len(b.fos) > max_buffer
        THEN [b EXCEPT !.fos = LastN(@, max_buffer)]
        ELSE b

(* ---- app.py: widgets ---------------------------------------------------- *)

Modes == {"MANUAL FORENSICS", "LIVE STREAM"}

Sources == {"SIMULATOR", "PHYSICAL API"}

\* st.slider("Playback Speed", 1, 20, 5): range and default, scaled
Speeds == 1..MaxSpeed

DefaultSpeed == Min(5, MaxSpeed)

\* st.slider("Timeline (Hours)", 0.0, 24.0, 12.0, 0.1): the positions followed
TimelineChoices == {120, 240}

DefaultTimeline == 120

\* datetime.now().strftime('%H:%M:%S') as a logical clock: the time of the
\* script run in progress, which advances with every user interaction
Clock == {clicks}

\* mutant of SidebarSource: a source switch keeps the telemetry buffer
Mutant_SidebarSource(m, opt) ==
    IF m = "LIVE STREAM"
    THEN [telemetry_buffer |-> telemetry_buffer,
          api_connected |-> IF opt # data_source THEN FALSE ELSE api_connected,
          data_source |-> opt]
    ELSE [telemetry_buffer |-> telemetry_buffer,
          api_connected |-> api_connected,
          data_source |-> data_source]

\* app.py 381-390, run by the sidebar of every script run: the buffer,
\* api_connected and data_source after it, for mode m and source radio opt
SidebarSource(m, opt) ==
    IF m = "LIVE STREAM"
    THEN [telemetry_buffer |-> IF opt # data_source THEN EmptyBuffer ELSE telemetry_buffer,
          api_connected |-> IF opt # data_source THEN FALSE ELSE api_connected,
          data_source |-> opt]
    ELSE [telemetry_buffer |-> telemetry_buffer,
          api_connected |-> api_connected,
          data_source |-> data_source]

(* ---- app.py: the session ------------------------------------------------ *)

\* mutant of StreamAlarmFires: the latch test is dropped
Mutant_StreamAlarmFires(crit, logged) == crit

\* app.py 523: if is_critical and not st.session_state.alarm_already_logged
StreamAlarmFires(crit, logged) == crit /\ ~logged

\* mutant of HardStop: the index test is dropped
Mutant_HardStop(crit, index) == crit

\* mutant of range_next: the loop variable does not advance
Mutant_range_next(index, step) == index

\* app.py 494: for i in range(0, len(full_data), playback_speed): the value
\* of the loop variable after index
range_next(index, step) == index + step

\* app.py 494: the range has no value after index
range_exhausted(index, step, stop) == range_next(index, step) >= stop

\* app.py 691: if is_critical and i > 800
HardStop(crit, index) == crit /\ index > hard_stop_index

\* mutant of ForensicAlarmFires: the forensic branch never raises the alarm
Mutant_ForensicAlarmFires(crit, logged) == FALSE

\* app.py 714: if is_critical and not st.session_state.alarm_already_logged
ForensicAlarmFires(crit, logged) == crit /\ ~logged

\* mutant of ForensicAlarmClears: the auto-clear never runs
Mutant_ForensicAlarmClears(crit, logged) == FALSE

\* app.py 724: elif not is_critical and st.session_state.alarm_already_logged
ForensicAlarmClears(crit, logged) == ~crit /\ logged

\* mutant of LatchState: alarm_triggered is not assigned
Mutant_LatchState ==
    [alarm_triggered |-> alarm_triggered,
     alarm_already_logged |-> TRUE]

\* app.py 524-525 and 715-716: what a firing alarm assigns to the flags
LatchState ==
    [alarm_triggered |-> TRUE,
     alarm_already_logged |-> TRUE]

\* app.py 725-726: what the forensic auto-clear assigns to the flags
AutoClearState ==
    [alarm_triggered |-> FALSE,
     alarm_already_logged |-> FALSE]

\* app.py 406: the Reset button is part of the page while inject_failure is set
ResetShown == inject_failure

\* mutant of ResetState: the telemetry buffer is not replaced
Mutant_ResetState ==
    [inject_failure |-> FALSE,
     alarm_triggered |-> FALSE,
     command_log |-> <<>>,
     alarm_already_logged |-> FALSE,
     telemetry_buffer |-> telemetry_buffer]

\* app.py 407-411: what the Reset button assigns
ResetState ==
    [inject_failure |-> FALSE,
     alarm_triggered |-> FALSE,
     command_log |-> <<>>,
     alarm_already_logged |-> FALSE,
     telemetry_buffer |-> EmptyBuffer]

\* mutant of InjectState: the button clears alarm_triggered as well
Mutant_InjectState ==
    [inject_failure |-> TRUE,
     alarm_triggered |-> FALSE,
     alarm_already_logged |-> FALSE]

\* app.py 401-403: what the INJECT FAILURE button assigns
InjectState ==
    [inject_failure |-> TRUE,
     alarm_triggered |-> alarm_triggered,
     alarm_already_logged |-> FALSE]

\* app.py 272-289, the radio and slider defaults, and the first script run
Init ==
    /\ mode = "MANUAL FORENSICS"
    /\ source_option = "SIMULATOR"
    /\ scenario = "monsoon"
    /\ playback_speed = DefaultSpeed
    /\ timeline_hour = DefaultTimeline
    /\ inject_failure = FALSE
    /\ data_source = "SIMULATOR"
    /\ test_siren = FALSE
    /\ alarm_triggered = FALSE
    /\ command_log = <<>>
    /\ alarm_already_logged = FALSE
    /\ telemetry_buffer = EmptyBuffer
    /\ api_connected = FALSE
    /\ pc = "run"
    /\ i = 0
    /\ last_action = "Init"
    /\ is_critical = FALSE
    /\ eval_index = -1
    /\ appended = 0
    /\ visited = {}
    /\ paused = FALSE
    /\ replay_armed = TRUE
    /\ replay_log_len = 0
    /\ batch_index = -1
    /\ stream_batches = 0
    /\ rearmed = FALSE
    /\ f_valid = TRUE
    /\ f_runs = 0
    /\ f_prev = FALSE
    /\ ticks = 0
    /\ clicks = 0
    /\ call = NoCall
    /\ ml_engine = LithosML(MissingArtifact).self

\* a user action starts a script run: the main part runs from its top
StartRun(name) ==
    /\ clicks < MaxClicks
    /\ clicks' = clicks + 1
    /\ pc' = "run"
    /\ i' = 0
    /\ last_action' = name
    /\ is_critical' = FALSE
    /\ eval_index' = -1
    /\ appended' = IF name = "Reset" THEN 0 ELSE Len(command_log') - Len(command_log)
    /\ visited' = {}
    /\ paused' = FALSE
    /\ replay_armed' = ~alarm_already_logged'
    /\ replay_log_len' = Len(command_log')
    /\ batch_index' = -1
    /\ UNCHANGED engines

\* the sidebar of a run with mode m and source radio opt (app.py 381-390)
Sidebar(m, opt) ==
    /\ telemetry_buffer' = SidebarSource(m, opt).telemetry_buffer
    /\ api_connected' = SidebarSource(m, opt).api_connected
    /\ data_source' = SidebarSource(m, opt).data_source
    /\ ticks' = IF m = "LIVE STREAM" /\ opt # data_source THEN 0 ELSE ticks

\* st.radio("Select Mode", ...) changed (app.py 375-379)
SelectMode(m) ==
    /\ m # mode
    /\ mode' = m
    /\ Sidebar(m, source_option)
    /\ UNCHANGED <<source_option, scenario, playback_speed, timeline_hour>>
    /\ UNCHANGED <<inject_failure, test_siren, alarm_triggered, command_log,
                   alarm_already_logged>>
    /\ UNCHANGED <<stream_batches, rearmed, f_valid, f_runs, f_prev>>
    /\ StartRun("SelectMode")

\* st.radio("Source", ...) changed (app.py 383-390)
SelectSource(opt) ==
    /\ mode = "LIVE STREAM"
    /\ opt # source_option
    /\ source_option' = opt
    /\ Sidebar(mode, opt)
    /\ UNCHANGED <<mode, scenario, playback_speed, timeline_hour>>
    /\ UNCHANGED <<inject_failure, test_siren, alarm_triggered, command_log,
                   alarm_already_logged>>
    /\ UNCHANGED <<stream_batches, rearmed, f_valid, f_runs, f_prev>>
    /\ StartRun("SelectSource")

\* st.selectbox("Scenario", ...) changed (app.py 395)
SelectScenario(sc) ==
    /\ sc # scenario
    /\ scenario' = sc
    /\ Sidebar(mode, source_option)
    /\ UNCHANGED <<mode, source_option, playback_speed, timeline_hour>>
    /\ UNCHANGED <<inject_failure, test_siren, alarm_triggered, command_log,
                   alarm_already_logged>>
    /\ UNCHANGED <<stream_batches, rearmed, f_valid, f_runs, f_prev>>
    /\ StartRun("SelectScenario")

\* st.slider("Playback Speed", ...) moved (app.py 484)
SetPlaybackSpeed(speed) ==
    /\ mode = "LIVE STREAM"
    /\ speed # playback_speed
    /\ playback_speed' = speed
    /\ Sidebar(mode, source_option)
    /\ UNCHANGED <<mode, source_option, scenario, timeline_hour>>
    /\ UNCHANGED <<inject_failure, test_siren, alarm_triggered, command_log,
                   alarm_already_logged>>
    /\ UNCHANGED <<stream_batches, rearmed, f_valid, f_runs, f_prev>>
    /\ StartRun("SetPlaybackSpeed")

\* st.slider("Timeline (Hours)", ...) moved (app.py 699)
SetTimeline(hour) ==
    /\ mode = "MANUAL FORENSICS"
    /\ hour # timeline_hour
    /\ timeline_hour' = hour
    /\ Sidebar(mode, source_option)
    /\ UNCHANGED <<mode, source_option, scenario, playback_speed>>
    /\ UNCHANGED <<inject_failure, test_siren, alarm_triggered, command_log,
                   alarm_already_logged>>
    /\ UNCHANGED <<stream_batches, rearmed, f_valid, f_runs, f_prev>>
    /\ StartRun("SetTimeline")

\* the INJECT FAILURE button (app.py 400-404); the run goes on to the main part
InjectFailure ==
    /\ Sidebar(mode, source_option)
    /\ inject_failure' = InjectState.inject_failure
    /\ alarm_triggered' = InjectState.alarm_triggered
    /\ alarm_already_logged' = InjectState.alarm_already_logged
    /\ UNCHANGED widgets
    /\ UNCHANGED <<test_siren, command_log>>
    /\ rearmed' = TRUE
    /\ f_valid' = FALSE /\ f_runs' = 0 /\ f_prev' = FALSE
    /\ UNCHANGED stream_batches
    /\ StartRun("InjectFailure")

\* the Reset button (app.py 406-412); st.rerun() starts the next run
Reset ==
    /\ ResetShown
    /\ inject_failure' = ResetState.inject_failure
    /\ alarm_triggered' = ResetState.alarm_triggered
    /\ command_log' = ResetState.command_log
    /\ alarm_already_logged' = ResetState.alarm_already_logged
    /\ telemetry_buffer' = ResetState.telemetry_buffer
    /\ api_connected' = SidebarSource(mode, source_option).api_connected
    /\ data_source' = SidebarSource(mode, source_option).data_source
    /\ ticks' = IF telemetry_buffer' = EmptyBuffer THEN 0 ELSE ticks
    /\ UNCHANGED widgets
    /\ UNCHANGED test_siren
    /\ stream_batches' = 0 /\ rearmed' = FALSE
    /\ f_valid' = TRUE /\ f_runs' = 0 /\ f_prev' = FALSE
    /\ StartRun("Reset")

\* the TEST SIREN button (app.py 322-330); st.rerun() starts the next run
TestSiren ==
    /\ \E current_time \in Clock :
          command_log' = Append(command_log, TestRecord(current_time))
    /\ test_siren' = FALSE
    /\ Sidebar(mode, source_option)
    /\ UNCHANGED widgets
    /\ UNCHANGED <<inject_failure, alarm_triggered, alarm_already_logged>>
    /\ f_valid' = FALSE /\ f_runs' = 0 /\ f_prev' = FALSE
    /\ UNCHANGED <<stream_batches, rearmed>>
    /\ StartRun("TestSiren")

\* one iteration of the replay loop (app.py 494-693)
StreamTick ==
    /\ mode = "LIVE STREAM"
    /\ pc = "run"
    /\ LET full_data == FullData(scenario, inject_failure)
           current_point == full_data[i]
           fos == StreamFos(current_point)
           crit == StreamIsCritical(fos)
           fire == StreamAlarmFires(crit, alarm_already_logged)
           stop == HardStop(crit, i)
           finished == stop \/ range_exhausted(i, playback_speed, Cardinality(DOMAIN full_data))
       IN  /\ telemetry_buffer' =
                 BufferAppendFos(BufferAppendPoint(telemetry_buffer, current_point), fos)
           /\ IF fire
              THEN /\ alarm_triggered' = LatchState.alarm_triggered
                   /\ alarm_already_logged' = LatchState.alarm_already_logged
                   /\ \E current_time \in Clock :
                         command_log' = extend(command_log, StreamBatch(current_time))
                   /\ batch_index' = i
                   /\ stream_batches' = Min(stream_batches + 1, 2)
              ELSE UNCHANGED <<alarm_triggered, alarm_already_logged, command_log,
                               batch_index, stream_batches>>
           /\ is_critical' = crit
           /\ eval_index' = i
           /\ visited' = visited \cup {i}
           /\ paused' = stop
           /\ pc' = IF finished THEN "idle" ELSE "run"
           /\ i' = IF finished THEN i ELSE range_next(i, playback_speed)
           \* the forensic slider is not part of a completed LIVE STREAM run
           /\ timeline_hour' = IF finished THEN DefaultTimeline ELSE timeline_hour
    /\ appended' = Len(command_log') - Len(command_log)
    /\ ticks' = Min(ticks + 1, max_buffer + 1)
    /\ last_action' = "StreamTick"
    /\ f_valid' = FALSE /\ f_runs' = 0 /\ f_prev' = FALSE
    /\ UNCHANGED <<mode, source_option, scenario, playback_speed>>
    /\ UNCHANGED <<inject_failure, data_source, test_siren, api_connected>>
    /\ UNCHANGED <<replay_armed, replay_log_len, rearmed, clicks>>
    /\ UNCHANGED engines

\* the main part of a MANUAL FORENSICS run (app.py 696-847)
ForensicEval ==
    /\ mode = "MANUAL FORENSICS"
    /\ pc = "run"
    /\ LET full_data == FullData(scenario, inject_failure)
           n == Cardinality(DOMAIN full_data)
           selected == {k \in DOMAIN full_data :
                           full_data[k].Time_Hrs <= timeline_hour * (n - 1)}
           current_data == IF selected = {} THEN {0} ELSE selected
           latest_index == CHOOSE k \in current_data : \A j \in current_data : j <= k
           latest == full_data[latest_index]
           fos == ForensicFos(latest)
           crit == ForensicIsCritical(fos)
           fire == ForensicAlarmFires(crit, alarm_already_logged)
           clear == ForensicAlarmClears(crit, alarm_already_logged)
       IN  /\ IF fire
              THEN /\ alarm_triggered' = LatchState.alarm_triggered
                   /\ alarm_already_logged' = LatchState.alarm_already_logged
                   /\ \E ct \in Clock :
                         command_log' = extend(command_log, ForensicBatch(ct))
              ELSE IF clear
              THEN /\ alarm_triggered' = AutoClearState.alarm_triggered
                   /\ alarm_already_logged' = AutoClearState.alarm_already_logged
                   /\ UNCHANGED command_log
              ELSE UNCHANGED <<alarm_triggered, alarm_already_logged, command_log>>
           /\ rearmed' = (rearmed \/ (~fire /\ clear))
           /\ is_critical' = crit
           /\ eval_index' = latest_index
           /\ f_runs' = IF f_valid /\ crit /\ ~f_prev THEN f_runs + 1 ELSE f_runs
           /\ f_prev' = (f_valid /\ crit)
    /\ appended' = Len(command_log') - Len(command_log)
    /\ pc' = "idle"
    /\ last_action' = "ForensicEval"
    \* the source radio and the playback slider are not part of this run
    /\ source_option' = "SIMULATOR"
    /\ playback_speed' = DefaultSpeed
    /\ UNCHANGED <<mode, scenario, timeline_hour>>
    /\ UNCHANGED <<inject_failure, data_source, test_siren, telemetry_buffer,
                   api_connected>>
    /\ UNCHANGED <<i, visited, paused, replay_armed, replay_log_len, batch_index,
                   stream_batches, f_valid, ticks, clicks>>
    /\ UNCHANGED engines

Next ==
    \/ \E m \in Modes : SelectMode(m)
    \/ \E opt \in Sources : SelectSource(opt)
    \/ \E sc \in Scenarios : SelectScenario(sc)
    \/ \E speed \in Speeds : SetPlaybackSpeed(speed)
    \/ \E hour \in TimelineChoices : SetTimeline(hour)
    \/ InjectFailure
    \/ Reset
    \/ TestSiren
    \/ StreamTick
    \/ ForensicEval

Spec == Init /\ [][Next]_vars

(* ---- the functions of src/ called on their own ------------------------ *)

\* displacement series: 1.0 mm plus slope per sample, the last sample off by jump
Series(len, slope, jump) ==
    [k \in 1..len |-> 10 + slope * k + (IF k = len THEN jump ELSE 0)]

DisplacementSeries ==
    {Series(len, slope, jump) : len \in 0..MaxSamples, slope \in {0, 1, 10},
                                jump \in {0, 1, -30}}
    \cup {[k \in 1..10 |-> 10 * k]}

\* strictly increasing times, step dt, the last step longer by stretch
Times(len, dt, stretch) ==
    [k \in 1..len |-> dt * k + (IF k = len THEN stretch ELSE 0)]

\* the time_series arguments for a displacement series of len samples
TimeSeries(len) ==
    {None} \cup {Given(Times(len, dt, stretch)) : dt \in {10, 10000, 10001},
                                                  stretch \in {0, 10}}

\* app.py 508, 513: the TTF of tick `index` of a replay of full_data, from
\* the rows 0..index; the displacements are brought to the unit of the times
StreamTtf(full_data, index) ==
    LET n == Cardinality(DOMAIN full_data)
        rows_so_far == [k \in 1..(index + 1) |-> full_data[k - 1]]
    IN  calculate_ttf([k \in DOMAIN rows_so_far |->
                          rows_so_far[k].Displacement_mm * linspace_div(n)],
                      Given([k \in DOMAIN rows_so_far |-> rows_so_far[k].Time_Hrs]),
                      5)

session_unchanged == UNCHANGED <<widgets, session, pc, i, history>>

\* the functions of data_simulator.py and physics_engine.py keep no state
\* between calls: a behaviour calls one of them once
FirstCall == call = NoCall

Call_generate_gsi_dataset(n, sc) ==
    /\ FirstCall
    /\ call' = [fn |-> "generate_gsi_dataset",
                args |-> [rows |-> n, scenario |-> sc],
                result |-> generate_gsi_dataset(n, sc)]
    /\ UNCHANGED ml_engine
    /\ session_unchanged

Call_calculate_fos(cohesion, friction_angle, normal_stress, pore_pressure, shear_stress) ==
    /\ FirstCall
    /\ call' = [fn |-> "calculate_fos",
                args |-> [cohesion |-> cohesion, friction_angle |-> friction_angle,
                          normal_stress |-> normal_stress, pore_pressure |-> pore_pressure,
                          shear_stress |-> shear_stress],
                result |-> calculate_fos(cohesion, friction_angle, normal_stress,
                                         pore_pressure, shear_stress)]
    /\ UNCHANGED ml_engine
    /\ session_unchanged

Call_inverse_velocity(displacement_series, time_series) ==
    /\ FirstCall
    /\ call' = [fn |-> "inverse_velocity",
                args |-> [displacement_series |-> displacement_series,
                          time_series |-> time_series],
                result |-> inverse_velocity(displacement_series, time_series)]
    /\ UNCHANGED ml_engine
    /\ session_unchanged

Call_calculate_ttf(displacement_series, time_series, scaling_factor) ==
    /\ FirstCall
    /\ call' = [fn |-> "calculate_ttf",
                args |-> [displacement_series |-> displacement_series,
                          time_series |-> time_series,
                          scaling_factor |-> scaling_factor],
                result |-> calculate_ttf(displacement_series, time_series, scaling_factor)]
    /\ UNCHANGED ml_engine
    /\ session_unchanged

\* the TTF call of a streaming tick (app.py 513)
Call_StreamTtf(sc, inject, index) ==
    /\ FirstCall
    /\ call' = [fn |-> "StreamTtf",
                args |-> [scenario |-> sc, inject_failure |-> inject, index |-> index],
                result |-> StreamTtf(FullData(sc, inject), index)]
    /\ UNCHANGED ml_engine
    /\ session_unchanged

\* the FoS of a streaming tick (app.py 511-512) on row `index` of the
\* dataset of scenario sc, as generated and with the failure injected
Call_StreamFos(sc, index) ==
    /\ FirstCall
    /\ call' = [fn |-> "StreamFos",
                args |-> [scenario |-> sc, index |-> index,
                          point |-> FullData(sc, FALSE)[index],
                          injected_point |-> FullData(sc, TRUE)[index]],
                result |-> StreamFos(FullData(sc, FALSE)[index]),
                injected_result |-> StreamFos(FullData(sc, TRUE)[index])]
    /\ UNCHANGED ml_engine
    /\ session_unchanged

\* app.py 263-269: initialize_systems constructs the LithosML object
Construct(artifact) ==
    LET r == LithosML(artifact)
    IN  /\ ml_engine' = IF r.raised THEN ml_engine ELSE r.self
        /\ call' = [fn |-> "LithosML", args |-> [artifact |-> artifact],
                    raised |-> r.raised]
    /\ session_unchanged

\* app.py 514, 710: ml_engine.predict_risk(pressure, displacement)
Call_predict_risk(pressure, displacement, outcome) ==
    LET r == predict_risk(ml_engine, pressure, displacement, outcome)
    IN  /\ call' = [fn |-> "predict_risk",
                    args |-> [pressure |-> pressure, displacement |-> displacement,
                              outcome |-> outcome, self |-> ml_engine],
                    raised |-> r.raised,
                    result |-> r.value]
        /\ ml_engine' = r.self
        /\ session_unchanged

CallsNext ==
    \/ \E n \in 1..MaxRows, sc \in Scenarios : Call_generate_gsi_dataset(n, sc)
    \/ \E cohesion \in {0, 500}, friction_angle \in {0, 35, 45},
          normal_stress \in {0, 1200}, pore_pressure \in {0, 600, 1199, 1200, 1201, 2000},
          shear_stress \in {-10, 0, 1, 2, 10, 1000} :
          Call_calculate_fos(cohesion, friction_angle, normal_stress,
                             pore_pressure, shear_stress)
    \/ \E d \in DisplacementSeries : \E t \in TimeSeries(Len(d)) :
          Call_inverse_velocity(d, t)
    \/ \E d \in DisplacementSeries : \E t \in TimeSeries(Len(d)) :
          \E scaling_factor \in {5, 10} : Call_calculate_ttf(d, t, scaling_factor)
    \/ \E sc \in Scenarios, inject \in BOOLEAN, index \in 0..(rows - 1) :
          Call_StreamTtf(sc, inject, index)
    \/ \E sc \in Scenarios, index \in 0..(rows - 1) : Call_StreamFos(sc, index)
    \/ \E artifact \in Artifacts : Construct(artifact)
    \/ \E pressure \in {200, 800}, displacement \in {10, 58},
          outcome \in ClassifierOutcomes :
          Call_predict_risk(pressure, displacement, outcome)

\* the functions of src/ called on their own, in any order
CallsSpec == Init /\ [][CallsNext]_vars

\* the replay loop runs on by itself (app.py 690: time.sleep(0.1), then the
\* next iteration), and so does the forensic branch of a script run
FairSpec == Spec /\ WF_vars(StreamTick) /\ WF_vars(ForensicEval)

(* ---- properties --------------------------------------------------------- *)

\* full_data of the run in progress
CurrentData == FullData(scenario, inject_failure)

\* the rows of the replay in progress that were processed and are critical
CriticalVisited == {k \in visited : StreamIsCritical(StreamFos(CurrentData[k]))}

SetMin(S) == CHOOSE x \in S : \A y \in S : x <= y

\* the records the last step appended to the command log
LastBatch == SubSeq(command_log, Len(command_log) - appended + 1, Len(command_log))

Kinds(batch) == [k \in DOMAIN batch |-> batch[k].rec]

SameStamp(batch) == \A j, k \in DOMAIN batch : batch[j].ts = batch[k].ts

FourKinds ==
    <<"MQTT SIREN_ON", "API POST /v1/trigger/alarm", "SMS broadcast", "RELAY truck cutoff">>

NumSirenOn(log) == Cardinality({k \in DOMAIN log : log[k].rec = "MQTT SIREN_ON"})

BufferEmpty ==
    /\ telemetry_buffer.time = <<>>
    /\ telemetry_buffer.pressure = <<>>
    /\ telemetry_buffer.displacement = <<>>
    /\ telemetry_buffer.fos = <<>>

\* C1: in LIVE STREAM mode, a replay that started with alarm_already_logged
\* false has appended nothing to the command log while no processed tick was
\* critical, and exactly one batch of the streaming loop, appended by the
\* first processed critical tick, once one was; later critical ticks of
\* the replay add nothing.
C1_StreamLatchOnce ==
    (mode = "LIVE STREAM" /\ visited # {} /\ replay_armed) =>
        IF CriticalVisited = {}
        THEN /\ Len(command_log) = replay_log_len
             /\ batch_index = -1
        ELSE /\ batch_index = SetMin(CriticalVisited)
             /\ Len(command_log) = replay_log_len + 5
             /\ \E t \in Clock :
                   SubSeq(command_log, replay_log_len + 1, Len(command_log)) = StreamBatch(t)

\* a replay that started armed, latched at one tick and has just processed a
\* later critical tick
C1_Witness ==
    /\ mode = "LIVE STREAM" /\ replay_armed /\ last_action = "StreamTick"
    /\ batch_index >= 0 /\ eval_index > batch_index /\ is_critical

C3_ForensicRuns ==
    f_valid =>
        /\ NumSirenOn(command_log) = f_runs
        /\ Len(command_log) = 4 * f_runs

\* critical, non-critical, critical again: the second run has just been logged
C3_Witness ==
    /\ f_valid /\ f_runs = 2 /\ f_prev
    /\ last_action = "ForensicEval" /\ appended = 4

\* C4 (as stated): a non-critical forensic evaluation leaves alarm_triggered
\* and alarm_already_logged false, whatever the user did before it.
C4_AutoClear ==
    (last_action = "ForensicEval" /\ ~is_critical) =>
        (~alarm_triggered /\ ~alarm_already_logged)

\* a step lowers one of the two alarm flags
FlagLowered ==
    \/ alarm_triggered /\ ~alarm_triggered'
    \/ alarm_already_logged /\ ~alarm_already_logged'

C6_Original ==
    /\ ResetShown
    /\ last_action = "Reset" =>
          (~alarm_triggered /\ ~alarm_already_logged /\ BufferEmpty)

\* C6 (amended): Reset can be issued only while inject_failure is set; after
\* it both alarm flags are false and the four buffer series are empty.
C6_Reset ==
    [][ last_action' = "Reset" =>
           /\ inject_failure
           /\ ~alarm_triggered' /\ ~alarm_already_logged'
           /\ BufferEmpty' ]_vars

\* Reset has just run, in LIVE STREAM mode, on a session with an injected failure
C6_Witness ==
    /\ last_action = "Reset" /\ mode = "LIVE STREAM"
    /\ ~inject_failure /\ ~alarm_triggered /\ ~alarm_already_logged
    /\ BufferEmpty /\ command_log = <<>>

\* index exceeds 80% of the series length
ExceedsEighty(index) == 10 * index > 8 * rows

SeriesKeys == {"time", "pressure", "displacement", "fos"}

\* a series after one more value: the oldest entry leaves a full series
Rolled(series, value) ==
    IF Len(series) < max_buffer
    THEN Append(series, value)
    ELSE Append(Tail(series), value)

\* C8: every series of the telemetry buffer holds min(k, max_buffer) entries,
\* k the ticks since the buffer was last emptied, and a tick appends its
\* value to each series, dropping the oldest entry of a full series: the
\* series are the most recent values in their order.
C8_RollingBuffer ==
    /\ \A key \in SeriesKeys : Len(telemetry_buffer[key]) = Min(ticks, max_buffer)
    /\ [][ /\ \A key \in SeriesKeys :
                 Len(telemetry_buffer'[key]) = Min(ticks', max_buffer)
           /\ last_action' = "StreamTick" =>
                 LET point == CurrentData[eval_index']
                 IN  /\ ticks' = Min(ticks + 1, max_buffer + 1)
                     /\ telemetry_buffer'.time
                           = Rolled(telemetry_buffer.time, point.Time_Hrs)
                     /\ telemetry_buffer'.pressure
                           = Rolled(telemetry_buffer.pressure, point.Pore_Water_Pressure_kPa)
                     /\ telemetry_buffer'.displacement
                           = Rolled(telemetry_buffer.displacement, point.Displacement_mm)
                     /\ telemetry_buffer'.fos
                           = Rolled(telemetry_buffer.fos, StreamFos(point)) ]_vars

\* a full buffer after an eviction, holding the end of one replay and the
\* start of the next
C8_Witness ==
    /\ ticks = max_buffer + 1
    /\ Len(telemetry_buffer.time) = max_buffer
    /\ telemetry_buffer.time[max_buffer - 1] > telemetry_buffer.time[max_buffer]

\* the last step latched the alarm and appended its batch
Latched == last_action \in {"StreamTick", "ForensicEval"} /\ appended > 0

\* C9 (as stated): every alarm latch appends the same batch in both modes:
\* the four records siren-on, alarm-trigger API call, broadcast and
\* equipment cutoff, in this order, with one timestamp.
C9_Original ==
    Latched => (Kinds(LastBatch) = FourKinds /\ SameStamp(LastBatch))

\* C9 (amended): every alarm latch appends a batch with one timestamp that
\* starts with the four records siren-on, alarm-trigger API call, broadcast
\* and equipment cutoff, in this order; the forensic batch is these four,
\* the streaming batch has a fifth record, the emergency-lighting relay
\* command.
C9_Batch ==
    Latched =>
        /\ SameStamp(LastBatch)
        /\ Kinds(LastBatch) =
              IF last_action = "StreamTick"
              THEN FourKinds \o <<"RELAY emergency lighting">>
              ELSE FourKinds

\* a forensic latch after a streaming latch: both batches are in the log
C9_Witness ==
    /\ last_action = "ForensicEval" /\ appended = 4
    /\ Len(command_log) = 9
    /\ command_log[5].rec = "RELAY emergency lighting"

\* the claim's criterion: (50 + max(120 - u, 0.1) * tan 35) / max(80 + 2.5 d, 0.1) < 1.05,
\* cross-multiplied (1.05 = 21/20)
ClaimCritical(point) ==
    20 * (500 * 10000 + Max(1200 - point.Pore_Water_Pressure_kPa, 1) * 7002)
        < 21 * 10000 * Max(800 + (5 * point.Displacement_mm) \div 2, 1)

\* C10: in both modes the evaluated point is critical exactly when its
\* factor of safety, with cohesion 50, friction angle 35, normal stress 120
\* and shear stress 80 + 2.5 * displacement, is below 1.05; a point that
\* is not critical appends nothing to the command log.
C10_CriticalIff ==
    last_action \in {"StreamTick", "ForensicEval"} =>
        /\ is_critical = ClaimCritical(CurrentData[eval_index])
        /\ ~is_critical => appended = 0

\* a streaming tick on a critical point whose factor of safety is 1.0 or more
C10_Witness ==
    /\ last_action = "StreamTick" /\ is_critical
    /\ StreamFos(CurrentData[eval_index]) >= 1000

\* ceil(n / s)
CeilDiv(n, s) == (n + s - 1) \div s

\* C11: a streaming replay visits the indices 0, s, 2s, ... (s the playback
\* speed) in strictly increasing order, each once, in at most ceil(N/s)
\* ticks; after every tick the loop ends exactly when the series is
\* exhausted or the hard stop fired; and once the user actions have
\* stopped, the script run in progress ends and none is started again.
C11_ReplayTerminates ==
    /\ [](mode = "LIVE STREAM" =>
            /\ visited = {k \in 0..(rows - 1) :
                             k <= eval_index /\ k % playback_speed = 0}
            /\ Cardinality(visited) <= CeilDiv(rows, playback_speed))
    /\ [][last_action' = "StreamTick" =>
            /\ eval_index' = IF visited = {} THEN 0 ELSE eval_index + playback_speed
            /\ eval_index' > eval_index
            /\ eval_index' \notin visited
            /\ eval_index' < rows
            /\ (pc' = "idle") = (paused' \/ eval_index' + playback_speed >= rows)]_vars
    /\ <>[](pc = "idle")

\* a replay at a speed above 1 ran to the end of the series in ceil(N/s) ticks
C11_Witness ==
    /\ mode = "LIVE STREAM" /\ last_action = "StreamTick" /\ pc = "idle" /\ ~paused
    /\ playback_speed > 1
    /\ Cardinality(visited) = CeilDiv(rows, playback_speed)

\* the last entry of a series
Last(series) == series[Len(series)]

\* row k of the dataset a run is to evaluate, from the generated dataset:
\* the pressure of the trailing 20% times 1.5 while inject_failure is set
InjectionExpected(k) ==
    LET generated == generate_gsi_dataset(rows, scenario)[k]
    IN  IF inject_failure /\ 10 * (k + 1) > 8 * rows
        THEN [generated EXCEPT !.Pore_Water_Pressure_kPa = (3 * @) \div 2]
        ELSE generated

\* C13: the dataset a run evaluates is the generated dataset, with the
\* pressure multiplied by 1.5 in exactly the rows of index >= floor(0.8 N)
\* while inject_failure is set and unmodified otherwise; the row a tick or a
\* forensic evaluation used is the row of this dataset.
C13_Injection ==
    /\ \A k \in 0..(rows - 1) : CurrentData[k] = InjectionExpected(k)
    /\ last_action \in {"StreamTick", "ForensicEval"} =>
          is_critical = ClaimCritical(InjectionExpected(eval_index))
    /\ last_action = "StreamTick" =>
          /\ Last(telemetry_buffer.time) = InjectionExpected(eval_index).Time_Hrs
          /\ Last(telemetry_buffer.pressure)
                = InjectionExpected(eval_index).Pore_Water_Pressure_kPa
          /\ Last(telemetry_buffer.displacement)
                = InjectionExpected(eval_index).Displacement_mm

\* with a failure injected, a tick in the trailing 20% right after a tick
\* before it: the buffer holds a generated pressure, then a spiked one
C13_Witness ==
    /\ last_action = "StreamTick" /\ inject_failure
    /\ eval_index = spike_start(CurrentData)
    /\ Len(telemetry_buffer.pressure) >= 2
    /\ 2 * Last(telemetry_buffer.pressure)
          = 3 * generate_gsi_dataset(rows, scenario)[eval_index].Pore_Water_Pressure_kPa
    /\ telemetry_buffer.pressure[Len(telemetry_buffer.pressure) - 1]
          = generate_gsi_dataset(rows, scenario)[eval_index - 1].Pore_Water_Pressure_kPa

\* the step is a user action: it starts a script run and runs its sidebar
UserAction == clicks' = clicks + 1

\* C20: a script run in LIVE STREAM mode whose source radio differs from the
\* stored data source empties the four buffer series and sets api_connected
\* to false before any tick of the run, and stores the source; with the same
\* source it leaves the buffer as it was; a source switch changes neither
\* the alarm flags nor the command log; a script run in MANUAL FORENSICS
\* mode changes neither data_source nor the buffer.
C20_SourceSwitch ==
    [][ /\ (UserAction /\ mode' = "LIVE STREAM") =>
              /\ data_source' = source_option'
              /\ eval_index' = -1 /\ visited' = {}
              /\ IF source_option' # data_source
                 THEN BufferEmpty' /\ ~api_connected'
                 ELSE /\ api_connected' = api_connected
                      /\ last_action' # "Reset" => telemetry_buffer' = telemetry_buffer
        /\ last_action' = "SelectSource" =>
              /\ alarm_triggered' = alarm_triggered
              /\ alarm_already_logged' = alarm_already_logged
              /\ command_log' = command_log
        /\ (mode' = "MANUAL FORENSICS" /\ last_action' # "Reset") =>
              /\ data_source' = data_source
              /\ api_connected' = api_connected
              /\ telemetry_buffer' = telemetry_buffer ]_vars

\* a source switch has emptied the buffer of a replay that raised the alarm
C20_Witness ==
    /\ last_action = "SelectSource" /\ mode = "LIVE STREAM"
    /\ data_source = "PHYSICAL API" /\ BufferEmpty
    /\ alarm_triggered /\ alarm_already_logged /\ command_log # <<>>

\* the records of a dataset of n rows are the rows 0..n-1, their Time_Hrs
\* strictly increasing from 0 to 24
SpansDay(df, n) ==
    /\ DOMAIN df = 0..(n - 1)
    /\ \A k \in 0..(n - 2) : df[k].Time_Hrs < df[k + 1].Time_Hrs
    /\ df[0].Time_Hrs = 0
    /\ df[n - 1].Time_Hrs = 24 * TimeUnitsPerHour(n)

\* C12 (as stated): for every scenario and every count N,
\* generate_gsi_dataset(rows=N, scenario) returns N records whose Time_Hrs
\* are strictly increasing, the first 0 and the last 24.
C12_Original ==
    call.fn = "generate_gsi_dataset" => SpansDay(call.result, call.args.rows)

\* C12 (amended): for every scenario and every count N >= 2,
\* generate_gsi_dataset(rows=N, scenario) returns N records whose Time_Hrs
\* are strictly increasing, the first 0 and the last 24; for N = 1 it
\* returns one record, whose Time_Hrs is 0.
C12_Generate ==
    call.fn = "generate_gsi_dataset" =>
        IF call.args.rows >= 2
        THEN SpansDay(call.result, call.args.rows)
        ELSE /\ DOMAIN call.result = {0}
             /\ call.result[0].Time_Hrs = 0

\* the largest dataset generated, for the scenario of the last branch
C12_Witness ==
    /\ call.fn = "generate_gsi_dataset"
    /\ call.args.rows = MaxRows /\ call.args.scenario = "stable"
    /\ call.result[MaxRows - 1].Time_Hrs = 24 * TimeUnitsPerHour(MaxRows)

\* the arguments and the result of the last call of calculate_fos
FosCall == call.fn = "calculate_fos"

\* r is the quotient num / den cut to thousandths
QuotientIs(r, num, den) == r * den <= num /\ num < (r + 1) * den

\* C14: calculate_fos(cohesion, friction_angle, normal_stress, pore_pressure,
\* shear_stress) is (cohesion + max(normal_stress - pore_pressure, 0.1)
\* * tan(friction_angle)) / max(shear_stress, 0.1) for every input; with
\* (50, 35, 120, 0, 100) the result is about 1.34.
C14_FosFormula ==
    FosCall =>
        LET a == call.args
            effective == IF a.normal_stress - a.pore_pressure > 1
                         THEN a.normal_stress - a.pore_pressure ELSE 1
            tangent == CASE a.friction_angle = 0 -> 0
                         [] a.friction_angle = 35 -> 7002
                         [] a.friction_angle = 45 -> 10000
            divisor == IF a.shear_stress > 1 THEN a.shear_stress ELSE 1
        IN  /\ QuotientIs(call.result, 10000 * a.cohesion + effective * tangent,
                          10 * divisor)
            /\ (a = [cohesion |-> 500, friction_angle |-> 35,
                     normal_stress |-> 1200, pore_pressure |-> 0,
                     shear_stress |-> 1000])
               => call.result = 1340

\* a call where the pore pressure lowers the strength, no clamp engaged
C14_Witness ==
    /\ FosCall
    /\ call.args = [cohesion |-> 500, friction_angle |-> 35,
                    normal_stress |-> 1200, pore_pressure |-> 600,
                    shear_stress |-> 1000]
    /\ call.result = 920

\* C15: calculate_fos returns a finite number on degenerate inputs: whenever
\* pore_pressure >= normal_stress the effective normal stress used is 0.1,
\* so the result does not depend on pore_pressure, and whenever
\* shear_stress <= 0.1 the denominator used is 0.1.
C15_FosClamps ==
    FosCall =>
        LET a == call.args
            tangent == CASE a.friction_angle = 0 -> 0
                         [] a.friction_angle = 35 -> 7002
                         [] a.friction_angle = 45 -> 10000
        IN  /\ call.result \in Nat
            /\ a.pore_pressure >= a.normal_stress =>
                   \E divisor \in {a.shear_stress, 1} :
                       /\ divisor >= a.shear_stress /\ divisor >= 1
                       /\ QuotientIs(call.result,
                                     10000 * a.cohesion + 1 * tangent,
                                     10 * divisor)
            /\ a.shear_stress <= 1 =>
                   \E effective \in {a.normal_stress - a.pore_pressure, 1} :
                       /\ effective >= a.normal_stress - a.pore_pressure
                       /\ effective >= 1
                       /\ QuotientIs(call.result,
                                     10000 * a.cohesion + effective * tangent,
                                     10 * 1)

\* pore pressure above the normal stress and a negative shear stress
C15_Witness ==
    /\ FosCall
    /\ call.args.pore_pressure > call.args.normal_stress
    /\ call.args.shear_stress < 0
    /\ call.args.friction_angle = 35
    /\ call.result = (10000 * call.args.cohesion + 7002) \div 10

\* C16: with fewer than 5 displacement samples inverse_velocity returns the
\* sentinel 999.0 whatever the values and whether or not a time series is
\* given, calculate_ttf returns 999.0 * scaling (499.5 by default), and the
\* streaming ticks of index < 4 report 499.5.
C16_FewSamples ==
    /\ (call.fn = "inverse_velocity" /\ Len(call.args.displacement_series) < 5)
       => call.result = 999000
    /\ (call.fn = "calculate_ttf" /\ Len(call.args.displacement_series) < 5)
       => 10 * call.result = 999000 * call.args.scaling_factor
    /\ (call.fn = "StreamTtf" /\ call.args.index < 4)
       => call.result = 499500

\* four moving samples with their times, the default scaling
C16_Witness ==
    /\ call.fn = "calculate_ttf"
    /\ Len(call.args.displacement_series) = 4
    /\ call.args.displacement_series[4] # call.args.displacement_series[3]
    /\ call.args.time_series.given
    /\ call.args.scaling_factor = 5
    /\ call.result = 499500

\* the value C17 states for a series d of 5 or more samples: the velocity is
\* (d[n] - d[n-1]) / (t[n] - t[n-1]), t the given times or the sample indices
StatedInverseVelocity(d, t) ==
    LET n == Len(d)
        rise == d[n] - d[n - 1]
        run == IF t.given THEN t.values[n] - t.values[n - 1] ELSE 10
        size(x) == IF x < 0 THEN 0 - x ELSE x
    IN  IF 10000 * size(rise) < size(run)
        THEN 99000
        ELSE (1000 * size(run)) \div size(rise)

\* C17: with 5 or more samples inverse_velocity takes the last derivative
\* value of the last 10 samples, velocity = (d[n] - d[n-1]) / (t[n] - t[n-1])
\* with t the given times or the sample indices; it returns 99.0 when
\* |velocity| < 0.0001 and 1/|velocity| otherwise (1.0 for displacements
\* 1..10 at unit steps), and calculate_ttf returns that value times the
\* scaling factor.
C17_LastDerivative ==
    /\ (call.fn = "inverse_velocity" /\ Len(call.args.displacement_series) >= 5)
       => /\ call.result = StatedInverseVelocity(call.args.displacement_series,
                                                 call.args.time_series)
          /\ (/\ call.args.displacement_series = [k \in 1..10 |-> 10 * k]
              /\ call.args.time_series = None)
             => call.result = 1000
    /\ (call.fn = "calculate_ttf" /\ Len(call.args.displacement_series) >= 5)
       => QuotientIs(call.result,
                     StatedInverseVelocity(call.args.displacement_series,
                                           call.args.time_series)
                     * call.args.scaling_factor,
                     10)

\* more than 10 samples with their times, the last step a drop of 3 mm
C17_Witness ==
    /\ call.fn = "inverse_velocity"
    /\ Len(call.args.displacement_series) = 11
    /\ call.args.time_series.given
    /\ call.args.displacement_series[11] < call.args.displacement_series[10]
    /\ call.args.displacement_series[10] > call.args.displacement_series[1]
    /\ call.result \notin {99000, 999000}

\* the artifact is missing or fails to load
Unloadable(artifact) ==
    artifact.import_raises \/ ~artifact.exists \/ artifact.load_raises

\* C18: when the classifier artifact is missing or fails to load,
\* constructing LithosML does not raise and model_loaded stays false; every
\* predict_risk call on an object whose model is not loaded returns
\* ("Model Not Loaded", 0.0) without raising, whatever the inputs, and leaves
\* the object as it was, so the tick that made the call goes on.
C18_ModelNotLoaded ==
    /\ (call.fn = "LithosML" /\ Unloadable(call.args.artifact))
       => /\ ~call.raised
          /\ ml_engine = [model |-> "None", model_loaded |-> FALSE]
    /\ (call.fn = "predict_risk" /\ ~call.args.self.model_loaded)
       => /\ ~call.raised
          /\ call.result = <<"Model Not Loaded", 0>>
          /\ ml_engine = call.args.self

\* a file that exists and fails to load
C18_Witness ==
    /\ call.fn = "LithosML"
    /\ call.args.artifact.exists /\ call.args.artifact.load_raises
    /\ ~call.args.artifact.import_raises
    /\ ~ml_engine.model_loaded

\* the labels of a classification that went through
RiskLabels == {"CRITICAL FAILURE", "Stable"}

\* C19: when a loaded classifier fails during an invocation (building the
\* input, predict or predict_proba raises), predict_risk returns
\* ("Error", 0.0) and raises nothing; the object stays loaded, and a later
\* call in which nothing fails returns a classification.
C19_InvocationError ==
    /\ [](( /\ call.fn = "predict_risk"
            /\ call.args.self.model_loaded
            /\ call.args.outcome.raises # "none" )
          => /\ ~call.raised
             /\ call.result = <<"Error", 0>>
             /\ ml_engine = call.args.self)
    /\ [][( /\ call.fn = "predict_risk"
            /\ call.result = <<"Error", 0>>
            /\ call'.fn = "predict_risk"
            /\ call'.args.outcome.raises = "none" )
          => /\ ~call'.raised
             /\ call'.args.self.model_loaded
             /\ call'.result[1] \in RiskLabels]_vars

\* predict_proba raises in a loaded classifier
C19_Witness ==
    /\ call.fn = "predict_risk"
    /\ call.args.outcome.raises = "predict_proba"
    /\ call.result = <<"Error", 0>>
    /\ ml_engine.model_loaded

\* the last step evaluated a point and found it critical
CriticalEvaluated ==
    last_action \in {"StreamTick", "ForensicEval"} /\ is_critical

\* C21: after every evaluated critical point (a streaming tick or a forensic
\* evaluation with FoS < 1.05), whatever the actions before it,
\* alarm_triggered is true and the command log holds a siren-on record.
C21_NoMissedAlarm ==
    CriticalEvaluated => (alarm_triggered /\ NumSirenOn(command_log) >= 1)

\* a critical forensic evaluation after an INJECT FAILURE that found the
\* alarm raised: the evaluation appends a further batch
C21_Witness ==
    /\ last_action = "ForensicEval" /\ is_critical /\ inject_failure
    /\ alarm_triggered /\ NumSirenOn(command_log) >= 2

\* C22: in every session state between actions, alarm_already_logged = true
\* implies alarm_triggered = true.
C22_LoggedImpliesTriggered == alarm_already_logged => alarm_triggered

\* the alarm latched again after INJECT FAILURE had lowered alarm_already_logged
C22_Witness ==
    /\ alarm_already_logged /\ alarm_triggered
    /\ inject_failure /\ NumSirenOn(command_log) >= 2

\* C23: in every session state between actions, alarm_triggered = true
\* implies that the command log holds at least one siren-on record, and no
\* step that leaves the alarm triggered empties the log.
C23_TriggeredHasSiren ==
    /\ [](alarm_triggered => NumSirenOn(command_log) >= 1)
    /\ [][(alarm_triggered /\ alarm_triggered')
              => (command_log' # <<>> /\ Len(command_log') >= Len(command_log))]_vars

\* the alarm was raised by a forensic evaluation and stays raised, with its
\* record in the log, through an INJECT FAILURE and a mode switch
C23_Witness ==
    /\ alarm_triggered /\ ~alarm_already_logged /\ inject_failure
    /\ mode = "LIVE STREAM"
    /\ NumSirenOn(command_log) = 1 /\ Len(command_log) = 4

\* entry k of the four series of buffer comes from one row of a dataset the
\* replay can run over: its time, pressure and displacement, and the FoS
\* computed from them
EntryOfOneTick(buffer, k) ==
    \E sc \in Scenarios, inject \in BOOLEAN :
        \E index \in DOMAIN FullData(sc, inject) :
            LET point == FullData(sc, inject)[index]
            IN  /\ buffer.time[k] = point.Time_Hrs
                /\ buffer.pressure[k] = point.Pore_Water_Pressure_kPa
                /\ buffer.displacement[k] = point.Displacement_mm
                /\ buffer.fos[k] = StreamFos(point)

\* C24: at the end of every streaming tick, and after Reset or a source
\* switch, the series time, pressure, displacement and fos of the telemetry
\* buffer have the same length, and entry k of each series was produced by
\* the same tick, also on ticks where the cap evicts the oldest entry.
C24_BufferAligned ==
    /\ \A key \in SeriesKeys :
          Len(telemetry_buffer[key]) = Len(telemetry_buffer.time)
    /\ \A k \in 1..Len(telemetry_buffer.time) :
          EntryOfOneTick(telemetry_buffer, k)

\* a tick has just evicted the oldest entry of a full buffer whose entries
\* differ in every series
C24_Witness ==
    /\ last_action = "StreamTick" /\ ticks = max_buffer + 1
    /\ Len(telemetry_buffer.fos) = max_buffer
    /\ \A key \in SeriesKeys :
          telemetry_buffer[key][max_buffer - 1] # telemetry_buffer[key][max_buffer]

\* log p is a prefix of log q
IsPrefix(p, q) == Len(p) <= Len(q) /\ SubSeq(q, 1, Len(p)) = p

\* the step is a forensic evaluation that took the auto-clear branch
AutoCleared ==
    /\ last_action' = "ForensicEval"
    /\ alarm_already_logged /\ ~alarm_already_logged'

\* C25: the command log is append-only except under Reset: every other
\* action (streaming tick, forensic evaluation with its auto-clear, INJECT
\* FAILURE, TEST SIREN, source or mode switch) leaves the previous log as a
\* prefix of the new log, and the forensic auto-clear and INJECT FAILURE
\* leave the log unchanged.
C25_AppendOnly ==
    [][ /\ last_action' # "Reset" => IsPrefix(command_log, command_log')
        /\ last_action' = "InjectFailure" => command_log' = command_log
        /\ AutoCleared => command_log' = command_log ]_vars

\* a streaming batch appended behind the record of a siren test
C25_Witness ==
    /\ last_action = "StreamTick" /\ appended = 5
    /\ Len(command_log) > 5
    /\ command_log[1].rec = "TEST siren"

\* pore pressures from 0 to 300 kPa, below, at and above the normal stress
PorePressures == {0, 1, 200, 500, 800, 1199, 1200, 1201, 1500, 2000, 3000}

\* C26: with the calling convention (cohesion 50, friction angle 35, normal
\* stress 120) and a fixed displacement, the factor of safety is
\* non-increasing in pore pressure, so a point critical at pore pressure u
\* is critical at every u2 >= u, and failure injection (pressure * 1.5)
\* never turns a critical point into a non-critical one.
C26_MonotoneInPressure ==
    call.fn = "StreamFos" =>
        /\ \A u, u2 \in PorePressures \cup {call.args.point.Pore_Water_Pressure_kPa} :
              u <= u2 =>
                  LET at(x) == StreamFos([call.args.point EXCEPT
                                              !.Pore_Water_Pressure_kPa = x])
                  IN  /\ at(u2) <= at(u)
                      /\ StreamIsCritical(at(u)) => StreamIsCritical(at(u2))
        /\ call.args.injected_point.Pore_Water_Pressure_kPa
              >= call.args.point.Pore_Water_Pressure_kPa
        /\ call.injected_result <= call.result
        /\ StreamIsCritical(call.result) => StreamIsCritical(call.injected_result)

\* a row critical as generated, inside the injected range, whose FoS the
\* injection lowers further
C26_Witness ==
    /\ call.fn = "StreamFos"
    /\ StreamIsCritical(call.result)
    /\ call.args.injected_point.Pore_Water_Pressure_kPa
          > call.args.point.Pore_Water_Pressure_kPa
    /\ call.injected_result < call.result

====
